---- MODULE Spec2Model ----
(***************************************************************************)
(* easymake: the variable store and string interpolator (helpers.Globals), *)
(* the sequential command executor (helpers.Shell) and the invocation      *)
(* dispatcher (make.Makefile).                                             *)
(*                                                                         *)
(* Text is a sequence of one-character strings, so that the regular        *)
(* expressions, str.split, str.replace, slicing and the JSON codec of the  *)
(* source are computed character by character.                             *)
(***************************************************************************)
EXTENDS Integers, Sequences, FiniteSets, TLC

\* ------------------------------------------------------------------ bounds

\* Longest CLI token list drawn in Init.
MaxArgs == 3
\* Depth of nested _replace_variables / get calls after which the interpreter
\* raises RecursionError (CPython's limit is 1000 frames; the model's is small).
MaxDepth == 4
\* Number of pieces a string handed to _replace_variables is built from.
MaxPieces == 2

\* --------------------------------------------------------------- characters

Lower == {"a", "b", "c", "d", "e", "f", "g", "h", "i", "j", "k", "l", "m",
          "n", "o", "p", "q", "r", "s", "t", "u", "v", "w", "x", "y", "z"}
Upper == {"F", "N", "P", "T"}
Digits == {"0", "1", "2", "3", "4", "5", "6", "7", "8", "9"}
Quotes == {"'", "\""}

\* \w of Python's re on the characters used here (helpers.py:163, make.py:163)
IsWord(c) == c \in Lower \cup Upper \cup Digits \cup {"_"}
\* \d (helpers.py:167)
IsDigit(c) == c \in Digits

DigitVal(c) ==
  CASE c = "0" -> 0 [] c = "1" -> 1 [] c = "2" -> 2 [] c = "3" -> 3
    [] c = "4" -> 4 [] c = "5" -> 5 [] c = "6" -> 6 [] c = "7" -> 7
    [] c = "8" -> 8 [] c = "9" -> 9

DigitChar(n) ==
  CASE n = 0 -> "0" [] n = 1 -> "1" [] n = 2 -> "2" [] n = 3 -> "3"
    [] n = 4 -> "4" [] n = 5 -> "5" [] n = 6 -> "6" [] n = 7 -> "7"
    [] n = 8 -> "8" [] n = 9 -> "9"

\* -------------------------------------------------------------- text tools

\* s[i:] and s[i:j] with 1-based i and exclusive j, as Python slices clip
Slice(s, i, j) == IF j <= i THEN <<>> ELSE SubSeq(s, i, j - 1)
From(s, i) == Slice(s, i, Len(s) + 1)

\* s.startswith(p) at position i
StartsAt(s, p, i) ==
  /\ i + Len(p) - 1 <= Len(s)
  /\ \A k \in 1..Len(p) : s[i + k - 1] = p[k]

\* first position >= i at which s holds p, or 0
RECURSIVE Find(_, _, _)
Find(s, p, i) ==
  IF i + Len(p) - 1 > Len(s) THEN 0
  ELSE IF StartsAt(s, p, i) THEN i
  ELSE Find(s, p, i + 1)

\* str.replace(old, new): every non-overlapping occurrence, left to right
RECURSIVE str_replace(_, _, _)
ReplaceAt(s, old, new, p) ==
  IF p = 0 THEN s
  ELSE Slice(s, 1, p) \o new \o str_replace(From(s, p + Len(old)), old, new)
str_replace(s, old, new) == IF Len(old) = 0 THEN s ELSE ReplaceAt(s, old, new, Find(s, old, 1))

\* str.split(sep) for a one-character separator: always at least one field
RECURSIVE str_split(_, _)
SplitAt(s, sep, p) ==
  IF p = 0 THEN <<s>> ELSE <<Slice(s, 1, p)>> \o str_split(From(s, p + 1), sep)
str_split(s, sep) == SplitAt(s, sep, Find(s, <<sep>>, 1))

\* shlex.split on text without quotes or escapes: the whitespace-separated words
RECURSIVE shlex_split(_)
WordTo(s, p) ==
  IF p = 0 THEN <<s>> ELSE <<Slice(s, 1, p)>> \o shlex_split(From(s, p + 1))
shlex_split(s) ==
  IF Len(s) = 0 THEN <<>>
  ELSE IF s[1] = " " THEN shlex_split(From(s, 2))
  ELSE WordTo(s, Find(s, <<" ">>, 1))

\* sep.join(parts)
RECURSIVE Join(_, _)
Join(parts, sep) ==
  IF Len(parts) = 0 THEN <<>>
  ELSE IF Len(parts) = 1 THEN parts[1]
  ELSE parts[1] \o sep \o Join(Tail(parts), sep)

\* str.strip(chars)
RECURSIVE LStrip(_, _)
LStrip(s, chars) ==
  IF Len(s) > 0 /\ s[1] \in chars THEN LStrip(Tail(s), chars) ELSE s
RECURSIVE RStrip(_, _)
RStrip(s, chars) ==
  IF Len(s) > 0 /\ s[Len(s)] \in chars THEN RStrip(Slice(s, 1, Len(s)), chars) ELSE s
str_strip(s, chars) == RStrip(LStrip(s, chars), chars)

\* end (exclusive) of the longest run of characters satisfying \w / \d from i
RECURSIVE WordEnd(_, _)
WordEnd(s, i) == IF i <= Len(s) /\ IsWord(s[i]) THEN WordEnd(s, i + 1) ELSE i
RECURSIVE DigitEnd(_, _)
DigitEnd(s, i) == IF i <= Len(s) /\ IsDigit(s[i]) THEN DigitEnd(s, i + 1) ELSE i

\* ------------------------------------------------------------------ values

\* Python values that flow through the store, the decoder and the dispatcher
StrV(s) == [t |-> "str", s |-> s]
IntV(n) == [t |-> "int", n |-> n]
BoolV(b) == [t |-> "bool", b |-> b]
NoneV == [t |-> "None"]
ListV(items) == [t |-> "list", items |-> items]
DictV(keys, vals) == [t |-> "dict", keys |-> keys, vals |-> vals]

\* str(n) for an integer
RECURSIVE NatToText(_)
NatToText(n) == IF n < 10 THEN <<DigitChar(n)>>
                ELSE NatToText(n \div 10) \o <<DigitChar(n % 10)>>
IntToText(n) == IF n < 0 THEN <<"-">> \o NatToText(0 - n) ELSE NatToText(n)

\* int(text) for a run of digits
RECURSIVE TextToNat(_)
TextToNat(s) == IF Len(s) = 0 THEN 0
                ELSE 10 * TextToNat(Slice(s, 1, Len(s))) + DigitVal(s[Len(s)])

\* ------------------------------------------------------- JSON encode/decode

T_true == <<"t", "r", "u", "e">>
T_false == <<"f", "a", "l", "s", "e">>
T_null == <<"n", "u", "l", "l">>
T_True == <<"T", "r", "u", "e">>
T_False == <<"F", "a", "l", "s", "e">>
T_None == <<"N", "o", "n", "e">>

\* json.dumps(v) with the default separators (", " and ": ")
RECURSIVE json_dumps(_)
RECURSIVE DumpItems(_)
RECURSIVE DumpMembers(_, _)
json_dumps(v) ==
  CASE v.t = "str" -> <<"\"">> \o v.s \o <<"\"">>
    [] v.t = "int" -> IntToText(v.n)
    [] v.t = "bool" -> IF v.b THEN T_true ELSE T_false
    [] v.t = "None" -> T_null
    [] v.t = "list" -> <<"[">> \o DumpItems(v.items) \o <<"]">>
    [] v.t = "dict" -> <<"{">> \o DumpMembers(v.keys, v.vals) \o <<"}">>
DumpItems(items) ==
  IF Len(items) = 0 THEN <<>>
  ELSE IF Len(items) = 1 THEN json_dumps(items[1])
  ELSE json_dumps(items[1]) \o <<",", " ">> \o DumpItems(Tail(items))
DumpMembers(keys, vals) ==
  IF Len(keys) = 0 THEN <<>>
  ELSE LET m == <<"\"">> \o keys[1] \o <<"\"", ":", " ">> \o json_dumps(vals[1]) IN
       IF Len(keys) = 1 THEN m
       ELSE m \o <<",", " ">> \o DumpMembers(Tail(keys), Tail(vals))

\* str(v) for a str, an int, a bool or None
py_str(v) ==
  CASE v.t = "str" -> v.s
    [] v.t = "int" -> IntToText(v.n)
    [] v.t = "bool" -> IF v.b THEN T_True ELSE T_False
    [] v.t = "None" -> T_None

\* The decoder: a recursive-descent JSON parser. A result is
\* [ok, v, j]: whether a value was read at i, the value, the index after it.
NoParse == [ok |-> FALSE, v |-> NoneV, j |-> 0]
Parsed(v, j) == [ok |-> TRUE, v |-> v, j |-> j]

RECURSIVE SkipWs(_, _)
SkipWs(s, i) == IF i <= Len(s) /\ s[i] = " " THEN SkipWs(s, i + 1) ELSE i

NumberAt(s, i, d, e) ==
  IF e = d THEN NoParse
  ELSE IF s[d] = "0" /\ e > d + 1 THEN NoParse
  ELSE IF e <= Len(s) /\ IsWord(s[e]) THEN NoParse
  ELSE Parsed(IntV(IF d = i THEN TextToNat(Slice(s, d, e))
                   ELSE 0 - TextToNat(Slice(s, d, e))), e)
NumberFrom(s, i, d) == NumberAt(s, i, d, DigitEnd(s, d))
ParseNumber(s, i) == NumberFrom(s, i, IF s[i] = "-" THEN i + 1 ELSE i)

StringTo(s, i, q) == IF q = 0 THEN NoParse ELSE Parsed(StrV(Slice(s, i + 1, q)), q + 1)
ParseString(s, i) == StringTo(s, i, Find(s, <<"\"">>, i + 1))

RECURSIVE ParseValue(_, _)
RECURSIVE ParseItems(_, _, _)
RECURSIVE ParseMembers(_, _, _, _)

\* after an item r of a list: "," and the next item, or "]"
ItemsNext(s, acc, k) ==
  IF k > Len(s) THEN NoParse
  ELSE IF s[k] = "]" THEN Parsed(ListV(acc), k + 1)
  ELSE IF s[k] = "," THEN ParseItems(s, k + 1, acc)
  ELSE NoParse
ItemsAfter(s, acc, r) ==
  IF ~r.ok THEN NoParse ELSE ItemsNext(s, Append(acc, r.v), SkipWs(s, r.j))
ParseItems(s, i, acc) == ItemsAfter(s, acc, ParseValue(s, i))

\* after a member key: value of a mapping: "," and the next member, or "}"
MembersNext(s, keys, vals, k) ==
  IF k > Len(s) THEN NoParse
  ELSE IF s[k] = "}" THEN Parsed(DictV(keys, vals), k + 1)
  ELSE IF s[k] = "," THEN ParseMembers(s, k + 1, keys, vals)
  ELSE NoParse
MembersAfterValue(s, keys, vals, r) ==
  IF ~r.ok THEN NoParse ELSE MembersNext(s, keys, Append(vals, r.v), SkipWs(s, r.j))
MembersColon(s, keys, vals, c) ==
  IF c > Len(s) \/ s[c] # ":" THEN NoParse
  ELSE MembersAfterValue(s, keys, vals, ParseValue(s, c + 1))
MembersAfterKey(s, keys, vals, key) ==
  IF ~key.ok THEN NoParse
  ELSE MembersColon(s, Append(keys, key.v.s), vals, SkipWs(s, key.j))
MembersAt(s, i, keys, vals) ==
  IF i > Len(s) \/ s[i] # "\"" THEN NoParse
  ELSE MembersAfterKey(s, keys, vals, ParseString(s, i))
ParseMembers(s, i0, keys, vals) == MembersAt(s, SkipWs(s, i0), keys, vals)

ListAt(s, i, k) ==
  IF k <= Len(s) /\ s[k] = "]" THEN Parsed(ListV(<<>>), k + 1)
  ELSE ParseItems(s, i + 1, <<>>)
DictAt(s, i, k) ==
  IF k <= Len(s) /\ s[k] = "}" THEN Parsed(DictV(<<>>, <<>>), k + 1)
  ELSE ParseMembers(s, i + 1, <<>>, <<>>)
ValueAt(s, i) ==
  IF i > Len(s) THEN NoParse
  ELSE IF StartsAt(s, T_true, i) THEN Parsed(BoolV(TRUE), i + 4)
  ELSE IF StartsAt(s, T_false, i) THEN Parsed(BoolV(FALSE), i + 5)
  ELSE IF StartsAt(s, T_null, i) THEN Parsed(NoneV, i + 4)
  ELSE IF s[i] = "\"" THEN ParseString(s, i)
  ELSE IF s[i] = "-" \/ IsDigit(s[i]) THEN ParseNumber(s, i)
  ELSE IF s[i] = "[" THEN ListAt(s, i, SkipWs(s, i + 1))
  ELSE IF s[i] = "{" THEN DictAt(s, i, SkipWs(s, i + 1))
  ELSE NoParse
ParseValue(s, i0) == ValueAt(s, SkipWs(s, i0))

\* json.loads(s) / demjson.decode(s): the whole text must be one value
WholeText(s, r) == IF r.ok /\ SkipWs(s, r.j) = Len(s) + 1 THEN r ELSE NoParse
json_decode(s) == WholeText(s, ParseValue(s, 1))

\* try: return decode(s) / except: return the value as it was
DecodedOr(r, var) == IF r.ok THEN r.v ELSE var

\* if isinstance(var, (list, dict)): json.dumps(var) else: str(var)
Render(var) == IF var.t \in {"list", "dict"} THEN json_dumps(var) ELSE py_str(var)

\* the guard of _to_string's decode (helpers.py:373-374)
LooksEncoded(var) ==
  /\ var.t = "str"
  /\ Len(var.s) > 2
  /\ var.s[1] # var.s[Len(var.s)]
  /\ var.s[1] \notin Quotes

\* _to_string(var): text that decodes as a structured literal is re-encoded
_to_string(var) ==
  Render(IF LooksEncoded(var) THEN DecodedOr(json_decode(var.s), var) ELSE var)

\* ------------------------------------------------- Globals: the interpolator

\* One subscript suffix at i: ['word'] ["word"] [$word] [digits]; its end
\* (exclusive), or 0 when none starts at i
SubQuoted(s, i, e) ==
  IF e > i + 2 /\ e + 1 <= Len(s) /\ s[e] \in Quotes /\ s[e + 1] = "]" THEN e + 2 ELSE 0
SubNested(s, i, e) == IF e > i + 2 /\ e <= Len(s) /\ s[e] = "]" THEN e + 1 ELSE 0
SubIndex(s, i, e) == IF e > i + 1 /\ e <= Len(s) /\ s[e] = "]" THEN e + 1 ELSE 0
MatchSub(s, i) ==
  IF i + 1 > Len(s) \/ s[i] # "[" THEN 0
  ELSE IF s[i + 1] \in Quotes THEN SubQuoted(s, i, WordEnd(s, i + 2))
  ELSE IF s[i + 1] = "$" THEN SubNested(s, i, WordEnd(s, i + 2))
  ELSE SubIndex(s, i, DigitEnd(s, i + 1))

\* (...)* of the subscript suffixes: as many as match
RECURSIVE SubsEnd(_, _)
SubsNext(s, i, e) == IF e = 0 THEN i ELSE SubsEnd(s, e)
SubsEnd(s, i) == SubsNext(s, i, MatchSub(s, i))

\* The token pattern at i: $word subs* | ${word subs*}; its end, or 0
BracedClose(s, f) == IF f <= Len(s) /\ s[f] = "}" THEN f + 1 ELSE 0
BracedName(s, i, e) == IF e > i + 2 THEN BracedClose(s, SubsEnd(s, e)) ELSE 0
MatchToken(s, i) ==
  IF i + 1 > Len(s) \/ s[i] # "$" THEN 0
  ELSE IF IsWord(s[i + 1]) THEN SubsEnd(s, WordEnd(s, i + 1))
  ELSE IF s[i + 1] = "{" THEN BracedName(s, i, WordEnd(s, i + 2))
  ELSE 0

\* re.findall(pattern, string): the tokens, left to right, duplicates kept
RECURSIVE FindTokens(_, _)
TokenTo(s, i, e) ==
  IF e = 0 THEN FindTokens(s, i + 1) ELSE <<Slice(s, i, e)>> \o FindTokens(s, e)
FindTokens(s, i) == IF i > Len(s) THEN <<>> ELSE TokenTo(s, i, MatchToken(s, i))

\* The lazy (.*?) of the subkey pattern from `start`: the least length after
\* which an optional quote and "]" follow; -1 when there is none
RECURSIVE LazyLen(_, _, _)
LazyLen(s, start, n) ==
  IF start + n > Len(s) THEN 0 - 1
  ELSE IF \/ s[start + n] = "]"
          \/ /\ s[start + n] \in Quotes
             /\ start + n + 1 <= Len(s)
             /\ s[start + n + 1] = "]"
  THEN n
  ELSE LazyLen(s, start, n + 1)

\* re.findall(r'\[(?:\'|")?(.*?)(?:\'|")?\]', var): the subscripts' interiors.
\* At a "[" the opening quote is taken when one is there and the rest then
\* matches; otherwise the match is tried without it.
RECURSIVE FindSubkeys(_, _)
SubkeyFound(s, start, k) ==
  <<Slice(s, start, k)>> \o FindSubkeys(s, IF s[k] = "]" THEN k + 1 ELSE k + 2)
SubkeyPlain(s, p, n) ==
  IF n < 0 THEN FindSubkeys(s, p + 1) ELSE SubkeyFound(s, p + 1, p + 1 + n)
SubkeyQuoted(s, p, n) ==
  IF n < 0 THEN SubkeyPlain(s, p, LazyLen(s, p + 1, 0))
  ELSE SubkeyFound(s, p + 2, p + 2 + n)
SubkeyAt(s, p) ==
  IF p = 0 THEN <<>>
  ELSE IF p + 1 <= Len(s) /\ s[p + 1] \in Quotes
  THEN SubkeyQuoted(s, p, LazyLen(s, p + 2, 0))
  ELSE SubkeyPlain(s, p, LazyLen(s, p + 1, 0))
FindSubkeys(s, i) == SubkeyAt(s, Find(s, <<"[">>, i))

\* re.findall(r'^\${?[\w_]+}?', var)[0]: the base of a token
BaseTo(var, e) == Slice(var, 1, IF e <= Len(var) /\ var[e] = "}" THEN e + 1 ELSE e)
BaseOf(var) == BaseTo(var, WordEnd(var, IF Len(var) >= 2 /\ var[2] = "{" THEN 3 ELSE 2))

\* What a call returns or raises: err is "none" or the exception's name;
\* warns lists the names warnings.warn was called with, in call order.
Returned(v, warns) == [err |-> "none", v |-> v, warns |-> warns]
Raised(err, warns) == [err |-> err, v |-> NoneV, warns |-> warns]

\* replacement[int(k)] for a list, replacement[k] otherwise (helpers.py:201-204)
IndexInto(replacement, k) ==
  CASE replacement.t = "list" ->
         IF Len(k.s) = 0 \/ DigitEnd(k.s, 1) # Len(k.s) + 1 THEN Raised("ValueError", <<>>)
         ELSE IF TextToNat(k.s) + 1 > Len(replacement.items) THEN Raised("IndexError", <<>>)
         ELSE Returned(replacement.items[TextToNat(k.s) + 1], <<>>)
    [] replacement.t = "dict" ->
         IF \E n \in 1..Len(replacement.keys) : replacement.keys[n] = k.s
         THEN Returned(replacement.vals[CHOOSE n \in 1..Len(replacement.keys) :
                                          replacement.keys[n] = k.s], <<>>)
         ELSE Raised("KeyError", <<>>)
    [] OTHER -> Raised("TypeError", <<>>)

RECURSIVE IndexAll(_, _, _)
IndexNext(r, subkeys, i) == IF r.err # "none" THEN r ELSE IndexAll(r.v, subkeys, i + 1)
IndexAll(replacement, subkeys, i) ==
  IF i > Len(subkeys) THEN Returned(replacement, <<>>)
  ELSE IndexNext(IndexInto(replacement, subkeys[i]), subkeys, i)

\* var_replacements[var] = replacement: a dict keeps a key's first position
RECURSIVE SetItem(_, _, _)
SetItem(pairs, key, value) ==
  IF Len(pairs) = 0 THEN <<[k |-> key, v |-> value]>>
  ELSE IF pairs[1].k = key THEN <<[k |-> key, v |-> value]>> \o Tail(pairs)
  ELSE <<pairs[1]>> \o SetItem(Tail(pairs), key, value)

\* var_replacements = {k: k for k in parsed_variables}
RECURSIVE InitialReplacements(_, _, _)
InitialReplacements(parsed, i, acc) ==
  IF i > Len(parsed) THEN acc
  ELSE InitialReplacements(parsed, i + 1, SetItem(acc, parsed[i], StrV(parsed[i])))

\* except (IndexError, KeyError): pass
Caught(err) == err \in {"IndexError", "KeyError"}

\* for var, replacement in var_replacements.items():
\*     string = string.replace(var, _to_string(replacement))
RECURSIVE ApplyReplacements(_, _, _)
ApplyReplacements(string, reps, i) ==
  IF i > Len(reps) THEN string
  ELSE ApplyReplacements(str_replace(string, reps[i].k, _to_string(reps[i].v)), reps, i + 1)

\* os.environ.get(key)
environ_get(env, key) == IF key \in DOMAIN env THEN StrV(env[key]) ELSE NoneV

RECURSIVE _replace_variables(_, _, _, _)
RECURSIVE ResolveSubkeys(_, _, _, _, _, _)
RECURSIVE ResolveVars(_, _, _, _, _, _, _)

\* if isinstance(value, str): value = self._replace_variables(value)
InterpolatedIfStr(gl, env, value, depth) ==
  IF value.t = "str" THEN _replace_variables(gl, env, value, depth + 1)
  ELSE Returned(value, <<>>)

\* Globals.get(key, default): dict.get, then a str value is interpolated
get(gl, env, key, default, depth) ==
  InterpolatedIfStr(gl, env, IF key \in DOMAIN gl THEN gl[key] ELSE default, depth)

\* The loop over the subkeys of one token (helpers.py:186-195): a subkey that
\* starts with "$" is looked up; found, it is interpolated again and replaces
\* the subkey; missing, a warning is issued and the subkey stays as written.
SubkeyFailed(err, subkeys, warns) == [err |-> err, subkeys |-> subkeys, warns |-> warns]
\* subkey_value = self._replace_variables(subkey_value); subkeys[i] = subkey_value
SubkeyInterpolated(gl, env, subkeys, i, depth, warns, r) ==
  IF r.err # "none" THEN SubkeyFailed(r.err, subkeys, warns \o r.warns)
  ELSE ResolveSubkeys(gl, env, [subkeys EXCEPT ![i] = r.v], i + 1, depth, warns \o r.warns)
\* subkey_value = self.get(key, os.environ.get(key)), with g what get returned
SubkeyLooked(gl, env, subkeys, i, depth, warns, key, g) ==
  IF g.err # "none" THEN SubkeyFailed(g.err, subkeys, warns \o g.warns)
  ELSE IF g.v.t # "None"
  THEN SubkeyInterpolated(gl, env, subkeys, i, depth, warns \o g.warns,
                          _replace_variables(gl, env, g.v, depth + 1))
  ELSE ResolveSubkeys(gl, env, subkeys, i + 1, depth, warns \o g.warns \o <<key>>)
\* key = key.strip('${}')
SubkeyLookup(gl, env, subkeys, i, depth, warns, key) ==
  SubkeyLooked(gl, env, subkeys, i, depth, warns, key,
               get(gl, env, key, environ_get(env, key), depth))
ResolveSubkeys(gl, env, subkeys, i, depth, warns) ==
  IF i > Len(subkeys) THEN SubkeyFailed("none", subkeys, warns)
  ELSE IF Len(subkeys[i].s) > 0 /\ subkeys[i].s[1] = "$"
  THEN SubkeyLookup(gl, env, subkeys, i, depth, warns,
                    str_strip(subkeys[i].s, {"$", "{", "}"}))
  ELSE ResolveSubkeys(gl, env, subkeys, i + 1, depth, warns)

\* subkeys = re.findall(regex, var); subkeys.insert(0, <the base>)
SubkeysOf(var) ==
  <<StrV(BaseOf(var))>> \o [n \in DOMAIN FindSubkeys(var, 1) |-> StrV(FindSubkeys(var, 1)[n])]

\* The loop over parsed_variables (helpers.py:178-207)
VarsFailed(err, reps, warns) == [err |-> err, reps |-> reps, warns |-> warns]
\* the try block (helpers.py:198-207), ix what the indexing returned or raised
VarIndexed(gl, env, parsed, i, reps, depth, warns, ix) ==
  IF ix.err = "none"
  THEN ResolveVars(gl, env, parsed, i + 1, SetItem(reps, parsed[i], ix.v), depth, warns)
  ELSE IF Caught(ix.err)
  THEN ResolveVars(gl, env, parsed, i + 1, reps, depth, warns)
  ELSE VarsFailed(ix.err, reps, warns)
VarResolved(gl, env, parsed, i, reps, depth, rs) ==
  IF rs.err # "none" THEN VarsFailed(rs.err, reps, rs.warns)
  ELSE VarIndexed(gl, env, parsed, i, reps, depth, rs.warns,
                  IndexAll(rs.subkeys[1], rs.subkeys, 2))
ResolveVars(gl, env, parsed, i, reps, depth, warns) ==
  IF i > Len(parsed) THEN VarsFailed("none", reps, warns)
  ELSE VarResolved(gl, env, parsed, i, reps, depth,
                   ResolveSubkeys(gl, env, SubkeysOf(parsed[i]), 1, depth, warns))

\* Globals._replace_variables(string); depth counts the nested calls, and
\* past MaxDepth the interpreter raises RecursionError
Replaced(text, r) ==
  IF r.err # "none" THEN Raised(r.err, r.warns)
  ELSE Returned(StrV(ApplyReplacements(text, r.reps, 1)), r.warns)
ReplaceParsed(gl, env, text, parsed, depth) ==
  Replaced(text, ResolveVars(gl, env, parsed, 1, InitialReplacements(parsed, 1, <<>>),
                             depth, <<>>))
ReplaceIn(gl, env, text, depth) == ReplaceParsed(gl, env, text, FindTokens(text, 1), depth)
_replace_variables(gl, env, string, depth) ==
  IF depth > MaxDepth THEN Raised("RecursionError", <<>>)
  ELSE ReplaceIn(gl, env, IF string.t = "str" THEN string.s ELSE _to_string(string), depth)

\* Globals.__getitem__(key): dict.__getitem__ raises KeyError on a missing key
__getitem__(gl, env, key) ==
  IF key \notin DOMAIN gl THEN Raised("KeyError", <<>>)
  ELSE InterpolatedIfStr(gl, env, gl[key], 0)

\* Globals.__getattr__(key)
__getattr__(gl, env, key) == __getitem__(gl, env, key)

\* ------------------------------------------------ Makefile: the dispatcher

\* A target is what inspect.getargspec reports of the registered function
\* (name, args, defaults of the last len(defaults) args, varargs, keywords)
\* and the shell call its body makes ("run", "capture" or "none").
Target(name, args, defaults, varargs, keywords, shell) ==
  [name |-> name, args |-> args, defaults |-> defaults, varargs |-> varargs,
   keywords |-> keywords, shell |-> shell]

N_help == <<"h", "e", "l", "p">>
N_v == <<"v">>
\* makefile_help(v=False), registered by add_help
makefile_help == Target(N_help, <<N_v>>, <<BoolV(FALSE)>>, FALSE, FALSE, "none")

\* self.targets[function.__name__] = function: a dict keeps a name's first
\* position and its last value
RECURSIVE add_target(_, _)
add_target(tgts, function) ==
  IF Len(tgts) = 0 THEN <<function>>
  ELSE IF tgts[1].name = function.name THEN <<function>> \o Tail(tgts)
  ELSE <<tgts[1]>> \o add_target(Tail(tgts), function)

\* self.targets.get(name): the index of the target, 0 when there is none
TargetIndex(tgts, name) ==
  IF \E i \in 1..Len(tgts) : tgts[i].name = name
  THEN CHOOSE i \in 1..Len(tgts) : tgts[i].name = name
  ELSE 0

\* self.args = [a for a in args if a != '']
RECURSIVE Filter_nonempty(_)
Filter_nonempty(as) ==
  IF Len(as) = 0 THEN <<>>
  ELSE IF Len(as[1]) = 0 THEN Filter_nonempty(Tail(as))
  ELSE <<as[1]>> \o Filter_nonempty(Tail(as))

\* The loop of _parse_functions (make.py:143-152): pop the front token while it
\* names a target; [err, functions, args]
RECURSIVE PopTargets(_, _, _, _)
PopTargets(tgts, as, functions, n) ==
  IF n = 0 THEN [err |-> "none", functions |-> functions, args |-> as]
  ELSE IF TargetIndex(tgts, as[1]) # 0
  THEN PopTargets(tgts, Tail(as), Append(functions, tgts[TargetIndex(tgts, as[1])]), n - 1)
  ELSE IF Len(functions) = 0
  THEN [err |-> "TypeError", functions |-> functions, args |-> as]
  ELSE [err |-> "none", functions |-> functions, args |-> as]

_parse_functions(tgts, as) ==
  IF Len(as) = 0 THEN [err |-> "none", functions |-> <<tgts[1]>>, args |-> as]
  ELSE PopTargets(tgts, as, <<>>, Len(as))

\* re.findall(r'^[\w_][\w\d_]*=.+$', a) is not empty
IsKwarg(a) ==
  /\ Len(a) >= 3
  /\ IsWord(a[1])
  /\ WordEnd(a, 1) < Len(a)
  /\ a[WordEnd(a, 1)] = "="

\* load_json(s): json.loads(s), or s itself when that raises
load_json(s) == DecodedOr(json_decode(s), StrV(s))

\* {k: load_json(v) for k, v in kwargs}: unpacking a.split('=') into k, v
\* raises ValueError unless it has exactly two fields
RECURSIVE BuildKwargs(_, _, _)
KwargFields(as, i, acc, fields) ==
  IF Len(fields) # 2 THEN [err |-> "ValueError", kwargs |-> acc]
  ELSE BuildKwargs(as, i + 1, SetItem(acc, fields[1], load_json(fields[2])))
BuildKwargs(as, i, acc) ==
  IF i > Len(as) THEN [err |-> "none", kwargs |-> acc]
  ELSE IF ~IsKwarg(as[i]) THEN BuildKwargs(as, i + 1, acc)
  ELSE KwargFields(as, i, acc, str_split(as[i], "="))

RECURSIVE Filter_notkwarg(_)
Filter_notkwarg(as) ==
  IF Len(as) = 0 THEN <<>>
  ELSE IF IsKwarg(as[1]) THEN Filter_notkwarg(Tail(as))
  ELSE <<as[1]>> \o Filter_notkwarg(Tail(as))

\* _parse_kwargs: [err, kwargs, args]; self.args is filtered after self.kwargs
\* is built, so an exception leaves both as they were
KwargsBuilt(as, b) ==
  IF b.err # "none" THEN [err |-> b.err, kwargs |-> <<>>, args |-> as]
  ELSE [err |-> "none", kwargs |-> b.kwargs, args |-> Filter_notkwarg(as)]
_parse_kwargs(as) == KwargsBuilt(as, BuildKwargs(as, 1, <<>>))

\* dict.get(key) on a list of [k, v] pairs: the value, NoneV when missing
dict_get(pairs, key) ==
  IF \E i \in 1..Len(pairs) : pairs[i].k = key
  THEN pairs[CHOOSE i \in 1..Len(pairs) : pairs[i].k = key].v
  ELSE NoneV

\* re.findall(r'^-\w+$', a) is not empty
IsFlag(a) == Len(a) >= 2 /\ a[1] = "-" /\ WordEnd(a, 2) = Len(a) + 1

\* {f: True for a in self.args if <flag> for f in a[1:]}: one key per letter
RECURSIVE FlagLetters(_, _, _)
FlagLetters(a, i, acc) ==
  IF i > Len(a) THEN acc
  ELSE FlagLetters(a, i + 1, SetItem(acc, <<a[i]>>, BoolV(TRUE)))
RECURSIVE BuildFlags(_, _, _)
BuildFlags(as, i, acc) ==
  IF i > Len(as) THEN acc
  ELSE BuildFlags(as, i + 1, IF IsFlag(as[i]) THEN FlagLetters(as[i], 2, acc) ELSE acc)

\* Python truth of a value
Truthy(v) ==
  CASE v.t = "None" -> FALSE
    [] v.t = "bool" -> v.b
    [] v.t = "int" -> v.n # 0
    [] v.t = "str" -> Len(v.s) > 0
    [] v.t = "list" -> Len(v.items) > 0
    [] v.t = "dict" -> Len(v.keys) > 0

\* self.args = [a for a in self.args if not self.flags.get(a[1:])]
RECURSIVE Filter_notflag(_, _)
Filter_notflag(as, flgs) ==
  IF Len(as) = 0 THEN <<>>
  ELSE IF Truthy(dict_get(flgs, From(as[1], 2))) THEN Filter_notflag(Tail(as), flgs)
  ELSE <<as[1]>> \o Filter_notflag(Tail(as), flgs)

\* _parse_flags: [flags, args]
FlagsBuilt(as, f) == [flags |-> f, args |-> Filter_notflag(as, f)]
_parse_flags(as) == FlagsBuilt(as, BuildFlags(as, 1, <<>>))

\* The binding loop of run (make.py:95-105): [arg_error, args], args the
\* [k, v] pairs bound so far in declared order
RECURSIVE BindArgs(_, _, _, _, _)
BindArgs(f, kw, flgs, i, acc) ==
  IF i > Len(f.args) THEN acc
  ELSE
    LET arg == f.args[i]
        num_nodefaults == Len(f.args) - Len(f.defaults)
    IN  IF dict_get(kw, arg).t # "None"
        THEN BindArgs(f, kw, flgs, i + 1,
                      [acc EXCEPT !.args = Append(@, [k |-> arg, v |-> dict_get(kw, arg)])])
        ELSE IF Truthy(dict_get(flgs, arg))
        THEN BindArgs(f, kw, flgs, i + 1,
                      [acc EXCEPT !.args = Append(@, [k |-> arg, v |-> dict_get(flgs, arg)])])
        ELSE IF i - 1 >= num_nodefaults
        THEN BindArgs(f, kw, flgs, i + 1,
                      [acc EXCEPT !.args = Append(@, [k |-> arg, v |-> f.defaults[i - num_nodefaults]])])
        ELSE BindArgs(f, kw, flgs, i + 1, [acc EXCEPT !.arg_error = TRUE])

InSeq(x, xs) == \E i \in 1..Len(xs) : xs[i] = x

RECURSIVE Filter_notin(_, _)
Filter_notin(as, names) ==
  IF Len(as) = 0 THEN <<>>
  ELSE IF InSeq(as[1], names) THEN Filter_notin(Tail(as), names)
  ELSE <<as[1]>> \o Filter_notin(Tail(as), names)

\* extra_args (make.py:111-116)
ExtraArgs(f, as, flgs) ==
  IF f.varargs
  THEN Filter_notin(as, f.args) \o [i \in 1..Len(flgs) |-> <<"-">> \o flgs[i].k]
  ELSE <<>>

RECURSIVE Filter_kwnotin(_, _)
Filter_kwnotin(kw, names) ==
  IF Len(kw) = 0 THEN <<>>
  ELSE IF InSeq(kw[1].k, names) THEN Filter_kwnotin(Tail(kw), names)
  ELSE <<kw[1]>> \o Filter_kwnotin(Tail(kw), names)

\* extra_kwargs (make.py:117-119)
ExtraKwargs(f, kw) == IF f.keywords THEN Filter_kwnotin(kw, f.args) ELSE <<>>

\* ------------------------------------------------------ Shell: the executor

NL == "\n"
W_echo == <<"e", "c", "h", "o">>
W_printf == <<"p", "r", "i", "n", "t", "f">>
W_test == <<"t", "e", "s", "t">>

\* subprocess.run(command_list, stdout=..., stderr=..., universal_newlines=True)
\* for the programs the commands of the model name: echo writes its operands
\* and a newline, printf writes its operand, test without operands and false
\* exit 1, true exits 0. An empty list raises IndexError, a program that is not
\* installed FileNotFoundError. stdout is captured only through a pipe.
subprocess_run(command_list, stdout) ==
  LET piped(text) == IF stdout = "PIPE" THEN StrV(text) ELSE NoneV
      done(rc, text) == [exc |-> "none", returncode |-> rc, stdout |-> piped(text)]
  IN  IF Len(command_list) = 0
      THEN [exc |-> "IndexError", returncode |-> 0, stdout |-> NoneV]
      ELSE CASE command_list[1] = W_echo -> done(0, Join(Tail(command_list), <<" ">>) \o <<NL>>)
             [] command_list[1] = W_printf ->
                  IF Len(command_list) = 1 THEN done(1, <<>>) ELSE done(0, command_list[2])
             [] command_list[1] = W_test ->
                  IF Len(command_list) = 1 THEN done(1, <<>>) ELSE done(0, <<>>)
             [] command_list[1] = T_true -> done(0, <<>>)
             [] command_list[1] = T_false -> done(1, <<>>)
             [] OTHER -> [exc |-> "FileNotFoundError", returncode |-> 0, stdout |-> NoneV]

\* [self.globals._replace_variables(c) for c in command_list]
RECURSIVE InterpolateAll(_, _, _, _, _)
WordInterpolated(gl, env, words, i, acc, r) ==
  IF r.err # "none" THEN [err |-> r.err, words |-> acc]
  ELSE InterpolateAll(gl, env, words, i + 1, Append(acc, r.v.s))
InterpolateAll(gl, env, words, i, acc) ==
  IF i > Len(words) THEN [err |-> "none", words |-> acc]
  ELSE WordInterpolated(gl, env, words, i, acc,
                        _replace_variables(gl, env, StrV(words[i]), 0))

\* a caller that never looks at the exit status
Failed_never(p) == FALSE

\* if p.returncode != 0
Failed(p) == p.returncode # 0

\* quit(): SystemExit(None), with which the interpreter exits 0
quit_status == 0
\* an exception nobody catches ends the interpreter with status 1
uncaught_status == 1

\* output += p.stdout[:-1]
Accumulate(output, p) ==
  IF Truthy(p.stdout) THEN output \o Slice(p.stdout.s, 1, Len(p.stdout.s)) ELSE output

\* One turn of the loop of _execute (helpers.py:333-358) on sub-command cmd:
\* [exc, returncode, stdout], exc the exception raised on the way, if any
ProcessRaised(err) == [exc |-> err, returncode |-> 0, stdout |-> NoneV]
\* command_list = [_to_string(c) for c in command_list]; p = subprocess.run(...)
RunWords(words, stdout) ==
  subprocess_run([i \in DOMAIN words |-> _to_string(StrV(words[i]))], stdout)
\* cwd = self.globals._replace_variables(cwd)
CwdInterpolated(words, dir, stdout) ==
  IF dir.err # "none" THEN ProcessRaised(dir.err) ELSE RunWords(words, stdout)
WordsInterpolated(sh, env, interpolated, cwd, stdout) ==
  IF interpolated.err # "none" THEN ProcessRaised(interpolated.err)
  ELSE CwdInterpolated(interpolated.words,
                       _replace_variables(sh.globals, env, StrV(cwd), 0), stdout)
ExecuteWords(sh, env, command_list, cwd, stdout) ==
  IF sh.is_globals
  THEN WordsInterpolated(sh, env, InterpolateAll(sh.globals, env, command_list, 1, <<>>),
                         cwd, stdout)
  ELSE RunWords(command_list, stdout)
ExecuteOne(sh, env, cmd, cwd, stdout) ==
  ExecuteWords(sh, env, shlex_split(cmd), cwd, stdout)

\* ------------------------------------------------------------------ inputs

\* Names and texts the inputs are made of
N_t == <<"t">>
N_b == <<"b">>
N_x == <<"x">>
N_name == <<"n", "a", "m", "e">>
N_verbose == <<"v", "e", "r", "b", "o", "s", "e">>
N_a == <<"a">>
N_c == <<"c">>
N_ab == <<"a", "b">>
N_P == <<"P">>
N_N == <<"N">>
N_k == <<"k">>

\* The targets a Makefile.py may register:
\*   def t(name, verbose=False): shell.capture(...)
\*   def b(x=0, v=False, *args): shell.run(...)
Target_t == Target(N_t, <<N_name, N_verbose>>, <<BoolV(FALSE)>>, FALSE, FALSE, "capture")
Target_b == Target(N_b, <<N_x, N_v>>, <<IntV(0), BoolV(FALSE)>>, TRUE, FALSE, "run")
UserTargets == {Target_t, Target_b}

\* CLI tokens (none starts with -h, which argparse keeps for itself)
A_zz == <<"z", "z">>
A_x1 == <<"x", "=", "1">>
A_xab == <<"x", "=", "a", "=", "b">>
A_xnull == <<"x", "=", "n", "u", "l", "l">>
A_namedemo == <<"n", "a", "m", "e", "=", "d", "e", "m", "o">>
A_verbose == <<"-", "v", "e", "r", "b", "o", "s", "e">>
A_v == <<"-", "v">>
Tokens == {<<>>, N_t, N_b, A_zz, A_x1, A_xab, A_xnull, A_namedemo, A_verbose, A_v}

\* Every token list of at most n tokens
RECURSIVE ArgLists(_)
ArgLists(n) ==
  IF n = 0 THEN {<<>>}
  ELSE ArgLists(n - 1) \cup
       {Append(l, a) : l \in {m \in ArgLists(n - 1) : Len(m) = n - 1}, a \in Tokens}

\* Command strings a target body hands to its Shell
Cmd_false == <<"e", "c", "h", "o", " ", "a", ";", " ", "f", "a", "l", "s", "e", ";", " ", "e", "c", "h", "o", " ", "b">>
Cmd_test == <<"e", "c", "h", "o", " ", "a", ";", " ", "t", "e", "s", "t", ";", " ", "e", "c", "h", "o", " ", "b">>
Cmd_printf == <<"p", "r", "i", "n", "t", "f", " ", "a", "b">>
Cmd_echo2 == <<"e", "c", "h", "o", " ", "a", ";", "e", "c", "h", "o", " ", "b">>
Cmd_var == <<"e", "c", "h", "o", " ", "$", "a", " ", "$", "m">>
Cmd_sub == <<"e", "c", "h", "o", " ", "$", "P", "[", "1", "]">>

EmptyMap == [k \in {} |-> NoneV]
\* Shell() and Shell(globals): self.globals is None or the Globals given
NoGlobals == [is_globals |-> FALSE, globals |-> EmptyMap]
WithGlobals(gl) == [is_globals |-> TRUE, globals |-> gl]
L123 == ListV(<<IntV(1), IntV(2), IntV(3)>>)
Store_shell == (N_a :> StrV(<<"x">>)) @@ (N_P :> L123)

\* What a target body runs: the Shell it uses and the command string
Bodies ==
  {[shell |-> NoGlobals, command |-> c] : c \in {Cmd_false, Cmd_test, Cmd_printf, Cmd_echo2}}
    \cup {[shell |-> WithGlobals(Store_shell), command |-> c] : c \in {Cmd_var, Cmd_sub, Cmd_echo2}}

\* os.getcwd()
getcwd == <<"/", "w">>

\* --------------------------------------------------------------- the state

VARIABLES
  pc,           \* where the run is: "load", the name of the next step of make(),
                \* "run", "_execute", "done"
  targets,      \* Makefile.targets, in registration order
  argv,         \* the CLI tokens as given (sys.argv[1:])
  args,         \* Makefile.args
  functions,    \* Makefile.functions
  kwargs,       \* Makefile.kwargs, [k, v] pairs in dict order
  flags,        \* Makefile.flags, [k, v] pairs in dict order
  calls,        \* the target calls made so far: [name, args, extra_args, extra_kwargs]
  body,         \* the body of the target being run
  commands,     \* _execute: the sub-commands still to run
  output,       \* _execute: output
  ran,          \* the sub-commands run so far: [call, command, cmd, exc,
                \* returncode, stdout]
  captured,     \* what the Shell calls returned to their targets
  exc,          \* the exception that ended the run, "none" when there is none,
                \* "SystemExit" after quit()
  exc_at,       \* the step that raised it
  exit_status,  \* the interpreter's exit status once pc = "done"
  store,        \* a Globals instance a script reads and writes
  environ,      \* os.environ
  gop,          \* the script's call on store that has just ended: [op, key, string]
  gres          \* what that call returned or raised, and the warnings it issued

make_vars == <<pc, targets, argv, args, functions, kwargs, flags, calls, body,
               commands, output, ran, captured, exc, exc_at, exit_status>>
globals_vars == <<store, environ, gop, gres>>
vars == <<make_vars, globals_vars>>

\* ------------------------------------------------- the run of one command

NoBody == [shell |-> NoGlobals, command |-> <<>>]
NoOp == [op |-> "none", key |-> <<>>, string |-> <<>>]

GlobalsIdle ==
  /\ store = EmptyMap
  /\ environ = EmptyMap
  /\ gop = NoOp
  /\ gres = Returned(NoneV, <<>>)

MakeIdle ==
  /\ pc = "load"
  /\ targets = <<>>
  /\ argv = <<>>
  /\ args = <<>>
  /\ functions = <<>>
  /\ kwargs = <<>>
  /\ flags = <<>>
  /\ calls = <<>>
  /\ body = NoBody
  /\ commands = <<>>
  /\ output = <<>>
  /\ ran = <<>>
  /\ captured = <<>>
  /\ exc = "none"
  /\ exc_at = "none"
  /\ exit_status = 0

\* makefile = Makefile(): no target yet, nothing parsed
Init == MakeIdle /\ GlobalsIdle

\* An exception nobody catches: the traceback, and the interpreter exits 1
Abort(name, at) ==
  /\ pc' = "done"
  /\ exc' = name
  /\ exc_at' = at
  /\ exit_status' = uncaught_status

\* @easymake.target on a function of Makefile.py, while the module loads
Register(f) ==
  /\ pc = "load"
  /\ TargetIndex(targets, f.name) = 0
  /\ targets' = add_target(targets, f)
  /\ UNCHANGED <<pc, argv, args, functions, kwargs, flags, calls, body, commands,
                 output, ran, captured, exc, exc_at, exit_status>>
  /\ UNCHANGED globals_vars

\* make(): add_help(), then _parse_args() on the tokens of the command line
ParseArgs ==
  /\ pc = "load"
  /\ targets' = add_target(targets, makefile_help)
  /\ \E tokens \in ArgLists(MaxArgs) :
       /\ argv' = tokens
       /\ args' = Filter_nonempty(tokens)
  /\ pc' = "_parse_functions"
  /\ UNCHANGED <<functions, kwargs, flags, calls, body, commands, output, ran,
                 captured, exc, exc_at, exit_status>>
  /\ UNCHANGED globals_vars

FunctionsParsed(r) ==
  IF r.err # "none"
  THEN /\ Abort(r.err, "_parse_functions")
       /\ UNCHANGED <<functions, args>>
  ELSE /\ functions' = r.functions
       /\ args' = r.args
       /\ pc' = "_parse_kwargs"
       /\ UNCHANGED <<exc, exc_at, exit_status>>

ParseFunctions ==
  /\ pc = "_parse_functions"
  /\ FunctionsParsed(_parse_functions(targets, args))
  /\ UNCHANGED <<targets, argv, kwargs, flags, calls, body, commands, output, ran, captured>>
  /\ UNCHANGED globals_vars

KwargsParsed(r) ==
  IF r.err # "none"
  THEN /\ Abort(r.err, "_parse_kwargs")
       /\ UNCHANGED <<kwargs, args>>
  ELSE /\ kwargs' = r.kwargs
       /\ args' = r.args
       /\ pc' = "_parse_flags"
       /\ UNCHANGED <<exc, exc_at, exit_status>>

ParseKwargs ==
  /\ pc = "_parse_kwargs"
  /\ KwargsParsed(_parse_kwargs(args))
  /\ UNCHANGED <<targets, argv, functions, flags, calls, body, commands, output, ran, captured>>
  /\ UNCHANGED globals_vars

FlagsParsed(r) == flags' = r.flags /\ args' = r.args

ParseFlags ==
  /\ pc = "_parse_flags"
  /\ FlagsParsed(_parse_flags(args))
  /\ pc' = "run"
  /\ UNCHANGED <<targets, argv, functions, kwargs, calls, body, commands, output, ran,
                 captured, exc, exc_at, exit_status>>
  /\ UNCHANGED globals_vars

\* One turn of the loop of run(): bind the next function's arguments and call
\* it. The call raises TypeError when a parameter is left unbound; a body that
\* uses no Shell returns at once; otherwise the body enters Shell._execute with
\* the command string b.command.
Call(f, bound) ==
  [name |-> f.name, args |-> bound.args, extra_args |-> ExtraArgs(f, args, flags),
   extra_kwargs |-> ExtraKwargs(f, kwargs)]

Invoked(f, bound, b) ==
  IF bound.arg_error
  THEN /\ b = NoBody
       /\ Abort("TypeError", "run")
       /\ UNCHANGED <<calls, body, commands>>
  ELSE /\ calls' = Append(calls, Call(f, bound))
       /\ IF f.shell = "none"
          THEN /\ b = NoBody
               /\ UNCHANGED <<body, commands, pc>>
          ELSE /\ b \in Bodies
               /\ body' = b
               /\ commands' = str_split(b.command, ";")
               /\ pc' = "_execute"
       /\ UNCHANGED <<exc, exc_at, exit_status>>

InvokeNext(f, b) ==
  Invoked(f, BindArgs(f, kwargs, flags, 1, [arg_error |-> FALSE, args |-> <<>>]), b)

Invoke(b) ==
  /\ pc = "run"
  /\ Len(calls) < Len(functions)
  /\ InvokeNext(functions[Len(calls) + 1], b)
  /\ output' = <<>>
  /\ UNCHANGED <<targets, argv, args, functions, kwargs, flags, ran, captured>>
  /\ UNCHANGED globals_vars

\* One turn of the loop of _execute: the next sub-command runs to its end, with
\* p the CompletedProcess, or the exception raised before there was one
Executed(cmd, p) ==
  /\ ran' = Append(ran, [call |-> Len(calls), command |-> body.command, cmd |-> cmd,
                         exc |-> p.exc, returncode |-> p.returncode,
                         stdout |-> p.stdout])
  /\ IF p.exc # "none"
     THEN /\ Abort(p.exc, "_execute")
          /\ UNCHANGED <<commands, output>>
     ELSE IF Failed(p)
     THEN /\ pc' = "done"
          /\ exc' = "SystemExit"
          /\ exc_at' = "_execute"
          /\ exit_status' = quit_status
          /\ UNCHANGED <<commands, output>>
     ELSE /\ output' = Accumulate(output, p)
          /\ commands' = Tail(commands)
          /\ UNCHANGED <<pc, exc, exc_at, exit_status>>

\* stdout=subprocess.PIPE in capture, stdout=sys.stdout in run
StdoutOf(f) == IF f.shell = "capture" THEN "PIPE" ELSE "sys.stdout"

ExecuteSub ==
  /\ pc = "_execute"
  /\ Len(commands) > 0
  /\ Executed(commands[1],
              ExecuteOne(body.shell, environ, commands[1], getcwd,
                         StdoutOf(functions[Len(calls)])))
  /\ UNCHANGED <<targets, argv, args, functions, kwargs, flags, calls, body, captured>>
  /\ UNCHANGED globals_vars

\* return output: the Shell call returns to the target, the target to run()
Return ==
  /\ pc = "_execute"
  /\ Len(commands) = 0
  /\ captured' = Append(captured, output)
  /\ pc' = "run"
  /\ UNCHANGED <<targets, argv, args, functions, kwargs, flags, calls, body, commands,
                 output, ran, exc, exc_at, exit_status>>
  /\ UNCHANGED globals_vars

\* run() returns, make() returns, main() returns: the interpreter exits 0
Exit ==
  /\ pc = "run"
  /\ Len(calls) = Len(functions)
  /\ pc' = "done"
  /\ exit_status' = 0
  /\ UNCHANGED <<targets, argv, args, functions, kwargs, flags, calls, body, commands,
                 output, ran, captured, exc, exc_at>>
  /\ UNCHANGED globals_vars

Next ==
  \/ \E f \in UserTargets : Register(f)
  \/ ParseArgs
  \/ ParseFunctions
  \/ ParseKwargs
  \/ ParseFlags
  \/ \E b \in Bodies \cup {NoBody} : Invoke(b)
  \/ ExecuteSub
  \/ Return
  \/ Exit

Spec == Init /\ [][Next]_vars

\* ------------------------------------------- a script working on a Globals

N_m == <<"m">>
V_x == StrV(<<"x">>)
V_y == StrV(<<"y">>)
V_ref_a == StrV(<<"$", "a">>)
V_ref_b == StrV(<<"$", "b">>)
V_ref_c == StrV(<<"$", "c">>)

\* Globals({...}) as a script may construct it
Store_empty == EmptyMap
Store_chain == (N_a :> V_x) @@ (N_b :> V_ref_a) @@ (N_c :> V_ref_b)
Store_nested == (N_P :> DictV(<<N_k>>, <<L123>>))
Store_keyed == (N_N :> StrV(N_k)) @@ (N_P :> DictV(<<N_k>>, <<StrV(<<"v">>)>>))
Store_literal == (N_a :> StrV(T_true)) @@ (N_b :> V_ref_a)
Store_list == (N_a :> V_x) @@ (N_P :> L123)
Store_self == (N_a :> V_ref_a)
Store_cycle == (N_a :> V_ref_b) @@ (N_b :> V_ref_a)
Store_text == (N_a :> V_x) @@ (N_P :> StrV(<<"a", "b", "c">>))
Stores == {Store_empty, Store_chain, Store_nested, Store_keyed, Store_literal,
           Store_list, Store_self, Store_cycle, Store_text}

\* os.environ: without and with a variable m
Environs == {EmptyMap, (N_m :> <<"e">>)}

\* Keys a script reads, and what it assigns
ReadKeys == {N_a, N_b, N_c, N_P, N_N, N_m}
SetKeys == {N_a}
SetValues == {V_y, V_ref_c}

\* Pieces of the strings handed to _replace_variables
S_a == <<"$", "a">>
S_ab == <<"$", "a", "b">>
S_b == <<"$", "b">>
S_c == <<"$", "c">>
S_m == <<"$", "m">>
S_braced == <<"$", "{", "a", "}">>
S_Pk1 == <<"$", "P", "[", "'", "k", "'", "]", "[", "1", "]">>
S_PN == <<"$", "P", "[", "$", "N", "]">>
S_P1 == <<"$", "P", "[", "1", "]">>
S_P5 == <<"$", "P", "[", "5", "]">>
S_m1 == <<"$", "m", "[", "1", "]">>
Pieces == {S_a, S_ab, S_b, S_c, S_m, S_braced, S_Pk1, S_PN, S_P1, S_P5, S_m1,
           <<" ">>, <<"x">>}

\* Every string of at most n pieces
RECURSIVE Strings(_)
Strings(n) ==
  IF n = 0 THEN {<<>>}
  ELSE {<<>>} \cup {q \o r : q \in Pieces, r \in Strings(n - 1)}

InitGlobals ==
  /\ MakeIdle
  /\ store \in Stores
  /\ environ \in Environs
  /\ gop = NoOp
  /\ gres = Returned(NoneV, <<>>)

\* shell/_execute or a script: globals._replace_variables(string)
Interpolate(string) ==
  /\ gop = NoOp
  /\ gop' = [op |-> "_replace_variables", key |-> <<>>, string |-> string]
  /\ gres' = _replace_variables(store, environ, StrV(string), 0)
  /\ UNCHANGED <<store, environ>>
  /\ UNCHANGED make_vars

\* globals.get(key)
Get(key) ==
  /\ gop = NoOp
  /\ gop' = [op |-> "get", key |-> key, string |-> <<>>]
  /\ gres' = get(store, environ, key, NoneV, 0)
  /\ UNCHANGED <<store, environ>>
  /\ UNCHANGED make_vars

\* globals[key]
GetItem(key) ==
  /\ gop = NoOp
  /\ gop' = [op |-> "__getitem__", key |-> key, string |-> <<>>]
  /\ gres' = __getitem__(store, environ, key)
  /\ UNCHANGED <<store, environ>>
  /\ UNCHANGED make_vars

\* globals.key
GetAttr(key) ==
  /\ gop = NoOp
  /\ gop' = [op |-> "__getattr__", key |-> key, string |-> <<>>]
  /\ gres' = __getattr__(store, environ, key)
  /\ UNCHANGED <<store, environ>>
  /\ UNCHANGED make_vars

\* globals[key] = value, globals.key = value: dict.__setitem__
Set(key, value) ==
  /\ gop = NoOp
  /\ store' = (key :> value) @@ store
  /\ UNCHANGED <<environ, gop, gres>>
  /\ UNCHANGED make_vars

\* the script goes on to its next statement
Continue ==
  /\ gop # NoOp
  /\ gop' = NoOp
  /\ gres' = Returned(NoneV, <<>>)
  /\ UNCHANGED <<store, environ>>
  /\ UNCHANGED make_vars

NextGlobals ==
  \/ \E string \in Strings(MaxPieces) : Interpolate(string)
  \/ \E key \in ReadKeys : Get(key)
  \/ \E key \in ReadKeys : GetItem(key)
  \/ \E key \in ReadKeys : GetAttr(key)
  \/ \E key \in SetKeys, value \in SetValues : Set(key, value)
  \/ Continue

SpecGlobals == InitGlobals /\ [][NextGlobals]_vars

\* ------------------------------------------------------------------ claims

Last(xs) == xs[Len(xs)]
SubFailed(r) == r.exc # "none" \/ r.returncode # 0
\* the place of ran[i] among the sub-commands of its own call
NthOfCall(i) == Cardinality({k \in 1..i : ran[k].call = ran[i].call})
W_echo_b == <<" ", "e", "c", "h", "o", " ", "b">>

\* C1. Fail-fast ordering. The targets called are the selected ones, in
\* selection order; the sub-commands run are, call by call, the ";"-separated
\* fields of the command in their order; only the last sub-command run can have
\* failed, and once it has the run is over with no further target called. For
\* "echo a; false; echo b" (and "echo a; test; echo b") the field " echo b" is
\* never run and a capturing call has accumulated exactly "a".
C1_FailFast ==
  /\ Len(calls) <= Len(functions)
  /\ \A i \in 1..Len(calls) : calls[i].name = functions[i].name
  /\ \A i \in 1..Len(ran) :
       /\ ran[i].call \in 1..Len(calls)
       /\ i > 1 => ran[i].call >= ran[i - 1].call
       /\ NthOfCall(i) <= Len(str_split(ran[i].command, ";"))
       /\ ran[i].cmd = str_split(ran[i].command, ";")[NthOfCall(i)]
       /\ i < Len(ran) => ~SubFailed(ran[i])
       /\ (i < Len(ran) /\ ran[i + 1].call > ran[i].call)
            => NthOfCall(i) = Len(str_split(ran[i].command, ";"))
       /\ ran[i].command \in {Cmd_false, Cmd_test} => ran[i].cmd # W_echo_b
  /\ (Len(ran) > 0 /\ SubFailed(Last(ran)))
       => /\ pc = "done"
          /\ Len(calls) = Last(ran).call
          /\ (Last(ran).command \in {Cmd_false, Cmd_test}
                /\ functions[Len(calls)].shell = "capture") => output = <<"a">>

\* C1 witness: two targets were selected, the first one's capturing call ran
\* "echo a; test; echo b", test exited 1, and the run ended there.
C1_Witness ==
  /\ pc = "done"
  /\ Len(functions) = 2
  /\ Len(calls) = 1
  /\ Len(ran) = 2
  /\ Last(ran).command = Cmd_test
  /\ Last(ran).exc = "none"
  /\ Last(ran).returncode = 1
  /\ output = <<"a">>

\* C2. Exit status: once the process has ended, its status is non-zero whenever
\* a sub-command exited non-zero and whenever no target matched, and it is zero
\* only when every selected target ran to completion.
C2_ExitStatus ==
  pc = "done" =>
    /\ (\E i \in 1..Len(ran) : ran[i].exc = "none" /\ ran[i].returncode # 0)
         => exit_status # 0
    /\ (exc = "TypeError" /\ exc_at = "_parse_functions") => exit_status # 0
    /\ exit_status = 0
         => /\ Len(calls) = Len(functions)
            /\ Len(functions) > 0
            /\ \A i \in 1..Len(ran) : ~SubFailed(ran[i])

\* the forms of CLI tokens, as the claims word them
KeywordForm(a) ==
  \E q \in 2..(Len(a) - 1) : a[q] = "=" /\ \A j \in 1..(q - 1) : IsWord(a[j])
KeywordName(a) == Slice(a, 1, CHOOSE q \in 1..Len(a) : a[q] = "=" /\ \A j \in 1..(q - 1) : a[j] # "=")
KeywordText(a) == From(a, 1 + CHOOSE q \in 1..Len(a) : a[q] = "=" /\ \A j \in 1..(q - 1) : a[j] # "=")
FlagForm(a) == Len(a) >= 2 /\ a[1] = "-" /\ \A j \in 2..Len(a) : IsWord(a[j])
Positional(a) == Len(a) > 0 /\ ~KeywordForm(a) /\ ~FlagForm(a)
Registered(a) == \E i \in 1..Len(targets) : targets[i].name = a

\* C3. Default target: with no positional token on the command line, exactly
\* the first-registered target is selected and no unknown-target error is
\* raised; that error is raised only when a positional token exists and the
\* first one names no target.
C3_DefaultTarget ==
  pc \notin {"load", "_parse_functions"} =>
    /\ (\A i \in 1..Len(argv) : KeywordForm(argv[i]) \/ FlagForm(argv[i]))
         => /\ exc_at # "_parse_functions"
            /\ functions = <<targets[1]>>
    /\ exc_at = "_parse_functions"
         => \E i \in 1..Len(argv) :
              /\ Positional(argv[i])
              /\ ~Registered(argv[i])
              /\ \A j \in 1..(i - 1) : ~Positional(argv[j])

\* the last token of the command line that supplies keyword `name`
LastKeyword(name) ==
  argv[CHOOSE i \in 1..Len(argv) :
         /\ KeywordForm(argv[i]) /\ KeywordName(argv[i]) = name
         /\ \A j \in (i + 1)..Len(argv) :
              ~(KeywordForm(argv[j]) /\ KeywordName(argv[j]) = name)]
KeywordSupplied(name) ==
  \E i \in 1..Len(argv) : KeywordForm(argv[i]) /\ KeywordName(argv[i]) = name
FlagSupplied(name) == \E i \in 1..Len(argv) : argv[i] = <<"-">> \o name

\* the value the binding rule gives parameter i of target f
RuleValue(f, i) ==
  IF KeywordSupplied(f.args[i]) THEN load_json(KeywordText(LastKeyword(f.args[i])))
  ELSE IF FlagSupplied(f.args[i]) THEN BoolV(TRUE)
  ELSE f.defaults[i - (Len(f.args) - Len(f.defaults))]

\* C4. Argument binding: every call made passes, for every declared parameter
\* in declared order, the supplied keyword of that name if there is one, else
\* true if a flag of that name was supplied, else the declared default.
C4_Binding ==
  \A c \in 1..Len(calls) :
    /\ Len(calls[c].args) = Len(functions[c].args)
    /\ \A i \in 1..Len(calls[c].args) :
         /\ calls[c].args[i].k = functions[c].args[i]
         /\ calls[c].args[i].v = RuleValue(functions[c], i)

\* the text the claim has a capturing call return: each successful
\* sub-command's output less one trailing newline, if it ends with one
TrimNewline(text) ==
  IF Len(text) > 0 /\ text[Len(text)] = NL THEN Slice(text, 1, Len(text)) ELSE text
RECURSIVE TrimmedOutputs(_, _)
TrimmedOutputs(i, call) ==
  IF i > Len(ran) THEN <<>>
  ELSE IF ran[i].call = call /\ ~SubFailed(ran[i]) /\ ran[i].stdout.t = "str"
  THEN TrimNewline(ran[i].stdout.s) \o TrimmedOutputs(i + 1, call)
  ELSE TrimmedOutputs(i + 1, call)

\* C9. Captured output: what Shell.capture has accumulated, and returns, is the
\* concatenation in execution order of each successful sub-command's output
\* with one trailing newline removed if and only if it ends with one.
C9_Capture ==
  (pc = "_execute" /\ functions[Len(calls)].shell = "capture")
    => output = TrimmedOutputs(1, Len(calls))

\* C10. Keyword decoding: _parse_kwargs raises no error, and once it has run
\* every name=value token is gone from the positional list and its name maps to
\* the decode of the whole text after the first "=", or to that text when the
\* decode fails.
C10_KeywordDecoding ==
  /\ exc_at # "_parse_kwargs"
  /\ (pc \in {"_parse_flags", "run", "_execute"} \/ (pc = "done" /\ exc_at # "_parse_functions"))
       => \A i \in 1..Len(argv) :
            KeywordForm(argv[i])
              => /\ ~InSeq(argv[i], args)
                 /\ dict_get(kwargs, KeywordName(argv[i]))
                      = load_json(KeywordText(LastKeyword(KeywordName(argv[i]))))

\* --------------------------------------------------- claims on the Globals

Interpolated(string) == gop.op = "_replace_variables" /\ gop.string = string
Holds(key, value) == key \in DOMAIN store /\ store[key] = value
Known(name) == name \in DOMAIN store \/ name \in DOMAIN environ

\* C5. Subscript resolution: a subscripted token is resolved by indexing the
\* base variable's value step by step: "$P['k'][1]" against {"P": {"k":
\* [1,2,3]}} becomes "2", "$P[$N]" against {"N": "k", "P": {"k": "v"}} becomes
\* "v", and "$P[1]" against {"P": [1,2,3]} becomes "2".
C5_Subscripts ==
  /\ (Interpolated(S_Pk1) /\ Holds(N_P, DictV(<<N_k>>, <<L123>>)))
       => gres = Returned(StrV(<<"2">>), <<>>)
  /\ (Interpolated(S_PN) /\ Holds(N_N, StrV(N_k))
        /\ Holds(N_P, DictV(<<N_k>>, <<StrV(<<"v">>)>>)))
       => gres = Returned(StrV(<<"v">>), <<>>)
  /\ (Interpolated(S_P1) /\ Holds(N_P, L123))
       => gres = Returned(StrV(<<"2">>), <<>>)

\* C6. Silent index failure: when the string is one subscripted token whose
\* indexing fails (the base name is missing, the index is out of range, the
\* subscript of a list is not an integer, the key is missing), no error is
\* raised and the string comes back unchanged.
C6_SilentIndexFailure ==
  (gop.op = "_replace_variables" /\
     \/ gop.string \in {S_P1, S_P5, S_Pk1} /\ ~Known(N_P)
     \/ gop.string = S_m1 /\ ~Known(N_m)
     \/ gop.string = S_P5 /\ Holds(N_P, L123)
     \/ gop.string = S_Pk1 /\ Holds(N_P, L123)
     \/ gop.string = S_P1 /\ Holds(N_P, DictV(<<N_k>>, <<L123>>)))
    => /\ gres.err = "none"
       /\ gres.v = StrV(gop.string)

PlainTokens == {S_a, S_ab, S_b, S_c, S_m}
NameOf(token) == From(token, 2)
Missing(token) == ~Known(NameOf(token))
EndsAt(text, tail) ==
  Len(text) >= Len(tail) /\ From(text, Len(text) - Len(tail) + 1) = tail
SetOf(xs) == {xs[i] : i \in 1..Len(xs)}
\* the token's variable is stored as a text that holds no reference
PlainlyStored(token) ==
  /\ NameOf(token) \in DOMAIN store
  /\ store[NameOf(token)].t = "str"
  /\ \A i \in 1..Len(store[NameOf(token)].s) : store[NameOf(token)].s[i] # "$"

\* C7. Unresolved reference: a token without subscripts whose name is in
\* neither the store nor the environment stays verbatim wherever it occurs, and
\* the diagnostics issued name each missing token, one diagnostic per distinct
\* token: a string that is one missing token comes back unchanged; in a string
\* of two tokens, each missing or stored as a text without references, a
\* missing first token still starts the result and a missing second token
\* still ends it.
C7_Unresolved ==
  gop.op = "_replace_variables" =>
    /\ \A t \in PlainTokens :
         (gop.string = t /\ Missing(t))
           => /\ gres.err = "none"
              /\ gres.v = StrV(t)
              /\ SetOf(gres.warns) = {NameOf(t)}
    /\ \A t1 \in PlainTokens, t2 \in PlainTokens :
         (gop.string = t1 \o t2 /\ \A t \in {t1, t2} : Missing(t) \/ PlainlyStored(t))
           => /\ Missing(t1) => (gres.err = "none" /\ gres.v.t = "str"
                                   /\ StartsAt(gres.v.s, t1, 1))
              /\ Missing(t2) => (gres.err = "none" /\ gres.v.t = "str"
                                   /\ EndsAt(gres.v.s, t2))
              /\ (Missing(t1) /\ Missing(t2))
                   => SetOf(gres.warns) = {NameOf(t1), NameOf(t2)}

\* v1 = "x", v2 = "$v1", ...: the text at the root of the chain that starts at
\* key within n steps, or <<"$">> when key does not start such a chain
RECURSIVE ChainRoot(_, _)
ChainRoot(key, n) ==
  IF n = 0 \/ key \notin DOMAIN store \/ store[key].t # "str" THEN <<"$">>
  ELSE IF \A i \in 1..Len(store[key].s) : store[key].s[i] # "$" THEN store[key].s
  ELSE IF Len(store[key].s) >= 2 /\ store[key].s[1] = "$"
          /\ \A i \in 2..Len(store[key].s) : IsWord(store[key].s[i])
  THEN ChainRoot(From(store[key].s, 2), n - 1)
  ELSE <<"$">>

\* C8. Transitive resolution: reading, by get, by subscript or by attribute, a
\* variable that starts an acyclic chain v = "$u", u = "$w", ..., w = "x" yields
\* the text x that the store holds at the end of the chain when the read is
\* made.
C8_Transitive ==
  (gop.op \in {"get", "__getitem__", "__getattr__"}
     /\ ChainRoot(gop.key, Cardinality(DOMAIN store)) # <<"$">>)
    => gres = Returned(StrV(ChainRoot(gop.key, Cardinality(DOMAIN store))), <<>>)

\* ------------------------------------------- claims on the extra arguments

\* the tokens of the command line that make() sees, and how many of the first
\* ones were taken as target names
GivenTokens == SelectSeq(argv, LAMBDA a : Len(a) > 0)
Consumed == IF Len(GivenTokens) = 0 THEN 0 ELSE Len(functions)
\* the tokens that are neither a consumed target name, nor a keyword token, nor
\* a flag token, in their order
Unconsumed ==
  SelectSeq(SubSeq(GivenTokens, Consumed + 1, Len(GivenTokens)),
            LAMBDA a : ~KeywordForm(a) /\ ~FlagForm(a))
\* the letters of the flag tokens from token i on, in their order
RECURSIVE FlagChars(_)
FlagChars(i) ==
  IF i > Len(argv) THEN <<>>
  ELSE (IF FlagForm(argv[i]) THEN From(argv[i], 2) ELSE <<>>) \o FlagChars(i + 1)
\* xs with each element kept at its first place only
RECURSIVE Distinct(_, _, _)
Distinct(xs, i, acc) ==
  IF i > Len(xs) THEN acc
  ELSE Distinct(xs, i + 1, IF InSeq(xs[i], acc) THEN acc ELSE Append(acc, xs[i]))
LetterEntries ==
  [n \in 1..Len(Distinct(FlagChars(1), 1, <<>>)) |->
     <<"-", Distinct(FlagChars(1), 1, <<>>)[n]>>]

\* C11. Extra positional arguments: a called target that accepts unbounded
\* extra positional arguments is passed, after its bound parameters, exactly
\* the tokens that are neither a consumed target name nor a keyword token nor a
\* flag token, each once and in order, followed by one "-<letter>" entry per
\* supplied flag letter.
C11_ExtraArgs ==
  \A c \in 1..Len(calls) :
    functions[c].varargs => calls[c].extra_args = Unconsumed \o LetterEntries

\* ------------------------------------------------- claims on termination

\* the string holds no subscript
Unsubscripted(string) == \A i \in 1..Len(string) : string[i] # "["

\* C12. Termination of interpolation: _replace_variables on a string without
\* subscripts, and every read of a stored variable by get, by subscript or by
\* attribute, ends by returning a value and raises nothing, whatever the store
\* holds, a variable that refers to itself or variables that refer to each
\* other in a cycle included.
C12_Termination ==
  /\ (gop.op = "_replace_variables" /\ Unsubscripted(gop.string))
       => (gres.err = "none" /\ gres.v.t = "str")
  /\ (gop.op \in {"get", "__getitem__", "__getattr__"} /\ gop.key \in DOMAIN store)
       => gres.err = "none"
====
